---- MODULE Spec2Model ----
(***************************************************************************)
(* Renderer-side buffer pool and control-plane protocol of the Android     *)
(* WPE backend: EGLTarget / RendererBackend (renderer-backend-egl.cpp)     *)
(* over IPC::Client (ipc.cpp).  The host process is the environment.       *)
(***************************************************************************)
EXTENDS Integers, Sequences, FiniteSets, TLC

\* ------------------------------------------------------------------ sizes
\* std::array<Buffer, 4> pool
NumSlots == 4
\* EGLTarget objects constructed on one RendererBackend
NumTargets == 2
\* pool ids the host hands out: 1..MaxPoolId (0 is "unassigned")
MaxPoolId == 2
\* render widths the frontend asks for: 1..MaxWidth (height is 1..MaxHeight)
MaxWidth == 2
MaxHeight == 1
\* fixed-size frames in flight per direction of one socket
MaxQueue == 1
\* slots the host holds locked at a time, over all targets, when the whole
\* protocol runs
MaxLocked == 1
\* slots locked at a time when one target renders, resizes and the host
\* releases
MaxLockedRace == 2
\* bytes of one frame on the wire (Message::size), frames a peer sends, and
\* deinitialize calls on one channel object
FrameSize == 2
MaxSent == 2
MaxClose == 2

Targets == 1..NumTargets
Slots == 0..(NumSlots - 1)
PoolIds == 1..MaxPoolId
\* buffer ids a ReleaseBuffer frame may carry: the slots and one id outside
BufferIds == 0..NumSlots
Widths == 1..MaxWidth
Heights == 1..MaxHeight
\* buffers.current == nullptr, "no target"
Null == -1

VARIABLES
    proc,         \* "running" | "aborted" (std::abort / g_error) | "crashed"
    blocked,      \* target inside sendReceiveMessage, Null when none
    alive,        \* [Targets -> BOOLEAN]: constructed and not yet deleted
    m_backend,    \* [Targets -> BOOLEAN]: EGLTarget::m_backend != nullptr
    renderer,     \* [Targets -> [width, height]] (the GL entry points and the
                  \* framebuffer object are left to the GL library)
    buffers,      \* [Targets -> [current, poolID, pool]]
    m_targetMap,  \* RendererBackend::m_targetMap, a function poolId -> target
    ipcOpen,      \* [Targets -> BOOLEAN]: EGLTarget::ipcClient has its socket
    bOut,         \* backend socket, renderer -> host
    bIn,          \* backend socket, host -> renderer
    tOut,         \* [Targets -> Seq]: target socket, renderer -> host
    hostNextId,   \* next pool id the host assigns
    hostCommits,  \* commits the host has seen and not yet released
    hostFrames,   \* pool ids with a FrameComplete still owed
    epoch,        \* history: [Targets -> [Slots -> allocations since purge]]
    fresh,        \* history: [Targets -> "no" | "purged" (and not rendered since)
                  \*   | "first" (the first frame after the purge is acquired)]
    last,         \* history: the operation that made this state
    heap,         \* [Targets -> [Slots -> AHardwareBuffers allocated for the
                  \*   slot and not released]]
    held,         \* history: commits <<poolID, bufferID>> of buffers that still
                  \*   exist, seen by the host and not released by it
    chan          \* one IPC::Host or IPC::Client and the bytes on its way to it

vars == <<proc, blocked, alive, m_backend, renderer, buffers, m_targetMap,
          ipcOpen, bOut, bIn, tOut, hostNextId, hostCommits, hostFrames,
          epoch, fresh, last, heap, held, chan>>

\* ---------------------------------------------------------------- frames
Msg(c, p, b) == [code |-> c, poolID |-> p, bufferID |-> b]
PoolConstruction == Msg("PoolConstruction", 0, 0)
PoolConstructionReply(p) == Msg("PoolConstructionReply", p, 0)
RegisterPool(p) == Msg("RegisterPool", p, 0)
UnregisterPool(p) == Msg("UnregisterPool", p, 0)
PoolPurge(p) == Msg("PoolPurge", p, 0)
BufferAllocation(p, b) == Msg("BufferAllocation", p, b)
BufferCommit(p, b) == Msg("BufferCommit", p, b)
FrameComplete(p) == Msg("FrameComplete", p, 0)
ReleaseBuffer(p, b) == Msg("ReleaseBuffer", p, b)
\* the one byte with the SCM_RIGHTS handle of slot b riding on it
HandleByte(p, b) == Msg("Handle", p, b)
NoMsg == Msg("none", 0, 0)

\* ----------------------------------------------------------------- Buffer
\* struct Buffer: gpu stands for egl.image, gl.colorBuffer and gl.dsBuffer,
\* which are created together and destroyed together.
FreeBuffer(i) == [bufferID |-> i, locked |-> FALSE, object |-> FALSE, gpu |-> FALSE]

\* what an operation leaves in `last`
Op(name, t) ==
    [op |-> name, target |-> t, frame |-> NoMsg, released |-> 0]

\* the same for an operation that took a frame off the backend socket
OpOn(name, t, frame) == [op |-> name, target |-> t, frame |-> frame, released |-> 0]

\* the same for an operation that released n AHardwareBuffers
OpPurge(name, t, n) == [op |-> name, target |-> t, frame |-> NoMsg, released |-> n]

\* fixed-size frames queued on a socket; a handle byte is no frame
Frames(q) == Cardinality({i \in 1..Len(q) : q[i].code # "Handle"})

Running == proc = "running" /\ blocked = Null

\* ---------------------------------------------------- IPC::Host, IPC::Client
\* A default-constructed Host or Client: no socket, no source, no handler
\* (m_clientFd is -1), nothing sent to it yet.  op and len are history: the
\* last operation on the object and the length its last receive returned.
\* releases counts the release calls issued: g_source_destroy on m_source,
\* the unref of m_socket, close of m_clientFd.
NoChannel ==
    [role |-> "none", m_source |-> "null", m_socket |-> FALSE, m_clientFd |-> FALSE,
     m_handler |-> FALSE, wire |-> <<>>, sent |-> 0, peerClosed |-> FALSE,
     delivered |-> <<>>, op |-> "construct", len |-> 0, calls |-> 0,
     releases |-> [source |-> 0, socket |-> 0, clientFd |-> 0], status |-> "ok"]

\* the bytes of the k-th frame a peer sends
FrameBytes(k) == [o \in 1..FrameSize |-> <<k, o>>]

\* ------------------------------------------------------------------- Init
\* One RendererBackend and NumTargets EGLTargets, each just constructed on
\* its own socket: bufferIDs numbered, nothing allocated, pool id 0.
Init ==
    /\ proc = "running"
    /\ blocked = Null
    /\ alive = [t \in Targets |-> TRUE]
    /\ m_backend = [t \in Targets |-> FALSE]
    /\ renderer = [t \in Targets |->
                     [width |-> 0, height |-> 0]]
    /\ buffers = [t \in Targets |->
                     [current |-> Null, poolID |-> 0,
                      pool |-> [i \in Slots |-> FreeBuffer(i)]]]
    /\ m_targetMap = <<>>
    /\ ipcOpen = [t \in Targets |-> TRUE]
    /\ bOut = <<>>
    /\ bIn = <<>>
    /\ tOut = [t \in Targets |-> <<>>]
    /\ hostNextId = 1
    /\ hostCommits = {}
    /\ hostFrames = {}
    /\ epoch = [t \in Targets |-> [i \in Slots |-> 0]]
    /\ fresh = [t \in Targets |-> "no"]
    /\ last = Op("construct", Null)
    /\ heap = [t \in Targets |-> [i \in Slots |-> 0]]
    /\ held = {}
    /\ chan = NoChannel

\* ------------------------------------------------------ destroyBufferPool
\* mutant: the buffer is released but the slot keeps its stale pointer
destroyBufferPoolKeepsObject(pool) ==
    [i \in Slots |-> [pool[i] EXCEPT !.gpu = FALSE, !.locked = FALSE]]

destroyBufferPool(pool) ==
    [i \in Slots |-> [pool[i] EXCEPT !.gpu = FALSE, !.locked = FALSE, !.object = FALSE]]

\* mutant: AHardwareBuffer_release without the check of buffer.object
ReleasedUnchecked(pool) == Slots

\* the slots whose AHardwareBuffer destroyBufferPool releases, lines 112-113
Released(pool) == {i \in Slots : pool[i].object}

\* the heap after destroyBufferPool on a pool
HeapAfterDestroy(h, pool) ==
    [i \in Slots |-> IF i \in Released(pool) THEN h[i] - 1 ELSE h[i]]

\* ------------------------------------------------ EGLTarget::frameWillRender
\* mutant: the scan stops one slot short
FirstUnlockedOfThree(pool, current) ==
    IF \E i \in Slots : i < NumSlots - 1 /\ ~pool[i].locked
    THEN CHOOSE i \in Slots : ~pool[i].locked /\ \A j \in Slots : j < i => pool[j].locked
    ELSE current

\* mutant: the scan has no break, the last unlocked slot wins
LastUnlocked(pool, current) ==
    IF \E i \in Slots : ~pool[i].locked
    THEN CHOOSE i \in Slots : ~pool[i].locked /\ \A j \in Slots : j > i => pool[j].locked
    ELSE current

\* the scan of lines 273-279: the first unlocked slot, else current as it was
FirstUnlocked(pool, current) ==
    IF \E i \in Slots : ~pool[i].locked
    THEN CHOOSE i \in Slots : ~pool[i].locked /\ \A j \in Slots : j < i => pool[j].locked
    ELSE current

\* mutant: a buffer is allocated for every frame
NeedsAllocationAlways(buffer) == TRUE

\* the allocation guard of line 289
NeedsAllocation(buffer) == ~buffer.object

\* allocOk: AHardwareBuffer_allocate succeeded; handleOk: the handle send did
frameWillRender(t, allocOk, handleOk) ==
    LET b == buffers[t]
        cur == FirstUnlocked(b.pool, b.current)
    IN
    /\ Running /\ alive[t] /\ m_backend[t]
    /\ fresh' = [fresh EXCEPT ![t] = IF @ = "purged" THEN "first" ELSE "no"]
    /\ UNCHANGED <<blocked, alive, m_backend, renderer, m_targetMap, ipcOpen, bIn,
                   tOut, hostNextId, hostCommits, hostFrames, held, chan>>
    /\ IF cur = Null
       THEN \* std::abort()
            /\ ~allocOk /\ ~handleOk
            /\ proc' = "aborted"
            /\ UNCHANGED <<buffers, bOut, epoch, heap>>
            /\ last' = Op("frameWillRender", t)
       ELSE IF ~NeedsAllocation(b.pool[cur])
       THEN \* the slot keeps its buffer
            /\ ~allocOk /\ ~handleOk
            /\ buffers' = [buffers EXCEPT ![t].current = cur]
            /\ UNCHANGED <<proc, bOut, epoch, heap>>
            /\ last' = Op("frameWillRender", t)
       ELSE IF ~allocOk
       THEN \* AHardwareBuffer_allocate failed: return with current set
            /\ ~handleOk
            /\ buffers' = [buffers EXCEPT ![t].current = cur]
            /\ UNCHANGED <<proc, bOut, epoch, heap>>
            /\ last' = Op("frameWillRender", t)
       ELSE /\ Frames(bOut) < MaxQueue
            /\ buffers' = [buffers EXCEPT ![t].current = cur,
                              ![t].pool[cur].object = TRUE,
                              ![t].pool[cur].gpu = TRUE]
            /\ bOut' = bOut \o <<BufferAllocation(b.poolID, b.pool[cur].bufferID)>>
                            \o (IF handleOk
                                THEN <<HandleByte(b.poolID, b.pool[cur].bufferID)>>
                                ELSE <<>>)
            /\ epoch' = [epoch EXCEPT ![t][cur] = @ + 1]
            /\ heap' = [heap EXCEPT ![t][cur] = @ + 1]
            /\ UNCHANGED proc
            /\ last' = Op("frameWillRender", t)

\* -------------------------------------------------- EGLTarget::frameRendered
\* The frontend calls frame_rendered after a frame_will_render that returned,
\* so buffers.current is set.
frameRendered(t) ==
    LET b == buffers[t]
        cur == b.current
        commit == BufferCommit(b.poolID, b.pool[cur].bufferID)
    IN
    /\ Running /\ alive[t]
    /\ cur # Null
    /\ IF b.pool[cur].object
       THEN /\ Frames(bOut) < MaxQueue
            /\ bOut' = Append(bOut, commit)
            /\ last' = Op("frameRendered", t)
       ELSE /\ UNCHANGED bOut
            /\ last' = Op("frameRendered", t)
    /\ buffers' = [buffers EXCEPT ![t].pool[cur].locked = TRUE, ![t].current = Null]
    /\ UNCHANGED <<proc, blocked, alive, m_backend, renderer, m_targetMap, ipcOpen,
                   bIn, tOut, hostNextId, hostCommits, hostFrames, epoch,
                   fresh, heap, held, chan>>

\* ---------------------------------------------------- EGLTarget::resize
\* mutant: no early return, every resize purges
SameSizeNever(r, width, height) == FALSE

\* the comparison of lines 229-230
SameSize(r, width, height) == r.width = width /\ r.height = height

resize(t, width, height) ==
    /\ Running /\ alive[t]
    /\ IF SameSize(renderer[t], width, height)
       THEN /\ UNCHANGED <<renderer, buffers, tOut, epoch, fresh, heap, held>>
            /\ last' = Op("resize", t)
       ELSE /\ Frames(tOut[t]) < MaxQueue
            /\ renderer' = [renderer EXCEPT ![t].width = width, ![t].height = height]
            /\ buffers' = [buffers EXCEPT ![t].pool = destroyBufferPool(@)]
            /\ heap' = [heap EXCEPT ![t] = HeapAfterDestroy(@, buffers[t].pool)]
            /\ tOut' = [tOut EXCEPT ![t] = Append(@, PoolPurge(buffers[t].poolID))]
            /\ epoch' = [epoch EXCEPT ![t] = [i \in Slots |-> 0]]
            /\ fresh' = [fresh EXCEPT ![t] = "purged"]
            /\ held' = {c \in held : c[1] # buffers[t].poolID}
            /\ last' = OpPurge("resize", t, Cardinality(Released(buffers[t].pool)))
    /\ UNCHANGED <<proc, blocked, alive, m_backend, m_targetMap, ipcOpen, bOut, bIn,
                   hostNextId, hostCommits, hostFrames, chan>>

\* ----------------------------------------------- EGLTarget::deinitialize
deinitialize(t) ==
    /\ Running /\ alive[t]
    /\ buffers' = [buffers EXCEPT ![t].pool = destroyBufferPool(@)]
    /\ epoch' = [epoch EXCEPT ![t] = [i \in Slots |-> 0]]
    /\ heap' = [heap EXCEPT ![t] = HeapAfterDestroy(@, buffers[t].pool)]
    /\ fresh' = [fresh EXCEPT ![t] = "purged"]
    /\ held' = {c \in held : c[1] # buffers[t].poolID}
    /\ last' = OpPurge("deinitialize", t, Cardinality(Released(buffers[t].pool)))
    /\ UNCHANGED <<proc, blocked, alive, m_backend, renderer, m_targetMap, ipcOpen,
                   bOut, bIn, tOut, hostNextId, hostCommits, hostFrames, chan>>

\* ------------------------------------------------ EGLTarget::~EGLTarget
\* what the destructor does to the backend's map: nothing
UnregisteredMap(map, t) == map

\* Client::sendMessage: g_socket_send on m_socket, which sends nothing once
\* deinitialize has cleared the socket
sendMessage(open, q, frame) == IF open THEN Append(q, frame) ELSE q

\* mutant: ipcClient.deinitialize() comes before the send
OpenAtUnregisterClosed(open) == FALSE

\* ipcClient's socket as the sendMessage of line 181 finds it: deinitialize
\* comes after it, at line 183
OpenAtUnregister(open) == open

destroy(t) ==
    /\ Running /\ alive[t]
    /\ Frames(tOut[t]) < MaxQueue
    /\ tOut' = [tOut EXCEPT ![t] = sendMessage(OpenAtUnregister(ipcOpen[t]), @,
                                                UnregisterPool(buffers[t].poolID))]
    /\ ipcOpen' = [ipcOpen EXCEPT ![t] = FALSE]
    /\ alive' = [alive EXCEPT ![t] = FALSE]
    /\ m_targetMap' = UnregisteredMap(m_targetMap, t)
    /\ last' = Op("destroy", t)
    /\ UNCHANGED <<proc, blocked, m_backend, renderer, buffers, bOut, bIn,
                   hostNextId, hostCommits, hostFrames, epoch, fresh, heap, held,
                   chan>>

\* ------------------------------------------------- EGLTarget::initialize
\* pool ids asked for so far: assigned, or with the request still in flight
Requested == (hostNextId - 1) + Cardinality({i \in 1..Len(bOut) : bOut[i].code = "PoolConstruction"})

\* lines 186-200 and Client::sendAndReceiveMessage up to the blocking receive
initializeSend(t, width, height) ==
    /\ Running /\ alive[t]
    /\ Requested < MaxPoolId
    /\ Frames(bOut) < MaxQueue
    /\ m_backend' = [m_backend EXCEPT ![t] = TRUE]
    /\ renderer' = [renderer EXCEPT ![t].width = width, ![t].height = height]
    /\ bOut' = Append(bOut, PoolConstruction)
    /\ blocked' = t
    /\ last' = Op("initializeSend", t)
    /\ UNCHANGED <<proc, alive, buffers, m_targetMap, ipcOpen, bIn, tOut,
                   hostNextId, hostCommits, hostFrames, epoch, fresh, heap, held,
                   chan>>

\* RendererBackend::registerEGLTarget: unordered_map::insert keeps an old entry
registerEGLTarget(map, poolId, t) ==
    IF poolId \in DOMAIN map THEN map ELSE map @@ (poolId :> t)

\* the switch of the reply lambda, lines 206-223
AcceptsReply(frame) == frame.code = "PoolConstructionReply"

\* the blocking receive returns the next frame of the socket, whatever it is
initializeReceive(t) ==
    LET frame == Head(bIn) IN
    /\ proc = "running" /\ blocked = t
    /\ bIn # <<>>
    /\ bIn' = Tail(bIn)
    /\ blocked' = Null
    /\ IF AcceptsReply(frame)
       THEN /\ Frames(tOut[t]) < MaxQueue
            /\ buffers' = [buffers EXCEPT ![t].poolID = frame.poolID]
            /\ m_targetMap' = registerEGLTarget(m_targetMap, frame.poolID, t)
            /\ tOut' = [tOut EXCEPT ![t] = Append(@, RegisterPool(frame.poolID))]
            /\ last' = OpOn("initializeReceive", t, frame)
       ELSE /\ UNCHANGED <<buffers, m_targetMap, tOut>>
            /\ last' = OpOn("initializeReceive", t, frame)
    /\ UNCHANGED <<proc, alive, m_backend, renderer, ipcOpen, bOut,
                   hostNextId, hostCommits, hostFrames, epoch, fresh, heap, held,
                   chan>>

\* ------------------------------------------------ EGLTarget::releaseBuffer
\* mutant: no check of the pool id
releaseBufferAnyPool(b, poolID, bufferID) ==
    [b EXCEPT !.pool = [i \in Slots |->
        IF b.pool[i].bufferID = bufferID THEN [b.pool[i] EXCEPT !.locked = FALSE]
        ELSE b.pool[i]]]

releaseBuffer(b, poolID, bufferID) ==
    IF b.poolID # poolID
    THEN b
    ELSE [b EXCEPT !.pool = [i \in Slots |->
             IF b.pool[i].bufferID = bufferID THEN [b.pool[i] EXCEPT !.locked = FALSE]
             ELSE b.pool[i]]]

\* --------------------- Client::socketCallback -> RendererBackend::handleMessage
\* m_targetMap.find of lines 141 and 152: the target, or Null for end()
Find(map, poolId) == IF poolId \in DOMAIN map THEN map[poolId] ELSE Null

\* mutant: a warning instead of g_error
FindMissedWarns(p) == "running"

\* what becomes of the process when find() misses: g_error
FindMissed(p) == "aborted"

\* freed: what the call through a pointer to a deleted EGLTarget does, crash or
\* carry on in freed memory
socketCallback(freed) ==
    LET frame == Head(bIn)
        p == frame.poolID
        t == Find(m_targetMap, p)
    IN
    /\ Running
    /\ bIn # <<>>
    /\ bIn' = Tail(bIn)
    /\ UNCHANGED <<blocked, alive, m_backend, renderer, m_targetMap, ipcOpen, bOut,
                   tOut, hostNextId, hostCommits, hostFrames, epoch, fresh, heap,
                   held, chan>>
    /\ IF frame.code \notin {"FrameComplete", "ReleaseBuffer"}
       THEN \* default: invalid message
            /\ freed = "none"
            /\ UNCHANGED <<proc, buffers>>
            /\ last' = OpOn("handleMessage", Null, frame)
       ELSE IF t = Null
       THEN /\ freed = "none"
            /\ proc' = FindMissed(p)
            /\ UNCHANGED buffers
            /\ last' = OpOn("handleMessage", Null, frame)
       ELSE /\ last' = OpOn("handleMessage", t, frame)
            /\ IF ~alive[t]
               THEN /\ freed \in {"crash", "carryOn"}
                    /\ proc' = IF freed = "crash" THEN "crashed" ELSE proc
                    /\ UNCHANGED buffers
               ELSE /\ freed = "none"
                    /\ UNCHANGED proc
                    /\ buffers' = IF frame.code = "ReleaseBuffer"
                                  THEN [buffers EXCEPT ![t] = releaseBuffer(@, p, frame.bufferID)]
                                  ELSE buffers

\* ------------------------------------------------------------------ host
\* The host process reads the backend socket: it answers PoolConstruction
\* with the next pool id and, when it keeps to the protocol (notes), books
\* each commit it sees so as to complete and release it later.
hostReceive(notes) ==
    LET frame == Head(bOut) IN
    /\ bOut # <<>>
    /\ bOut' = Tail(bOut)
    /\ IF frame.code = "PoolConstruction"
       THEN /\ Frames(bIn) < MaxQueue
            /\ bIn' = Append(bIn, PoolConstructionReply(hostNextId))
            /\ hostNextId' = hostNextId + 1
            /\ UNCHANGED <<hostCommits, hostFrames, held>>
       ELSE IF frame.code = "BufferCommit" /\ notes
       THEN /\ hostCommits' = hostCommits \cup {<<frame.poolID, frame.bufferID>>}
            /\ held' = held \cup {<<frame.poolID, frame.bufferID>>}
            /\ hostFrames' = hostFrames \cup {frame.poolID}
            /\ UNCHANGED <<bIn, hostNextId>>
       ELSE UNCHANGED <<bIn, hostNextId, hostCommits, hostFrames, held>>
    /\ last' = Op("host", Null)
    /\ UNCHANGED <<proc, blocked, alive, m_backend, renderer, buffers, m_targetMap,
                   ipcOpen, tOut, epoch, fresh, heap, chan>>

\* the host reads a target's socket; a PoolPurge makes it forget the pool's
\* buffers
hostReceiveTarget(t) ==
    LET frame == Head(tOut[t]) IN
    /\ tOut[t] # <<>>
    /\ tOut' = [tOut EXCEPT ![t] = Tail(@)]
    /\ hostCommits' = IF frame.code = "PoolPurge"
                      THEN {c \in hostCommits : c[1] # frame.poolID}
                      ELSE hostCommits
    /\ held' = IF frame.code = "PoolPurge"
               THEN {c \in held : c[1] # frame.poolID}
               ELSE held
    /\ last' = Op("host", Null)
    /\ UNCHANGED <<proc, blocked, alive, m_backend, renderer, buffers, m_targetMap,
                   ipcOpen, bOut, bIn, hostNextId, hostFrames, epoch, fresh, heap,
                   chan>>

hostFrameComplete(p) ==
    /\ p \in hostFrames
    /\ Frames(bIn) < MaxQueue
    /\ bIn' = Append(bIn, FrameComplete(p))
    /\ hostFrames' = hostFrames \ {p}
    /\ last' = Op("host", Null)
    /\ UNCHANGED <<proc, blocked, alive, m_backend, renderer, buffers, m_targetMap,
                   ipcOpen, bOut, tOut, hostNextId, hostCommits, epoch, fresh, heap,
                   held, chan>>

hostReleaseBuffer(p, b) ==
    /\ <<p, b>> \in hostCommits
    /\ Frames(bIn) < MaxQueue
    /\ bIn' = Append(bIn, ReleaseBuffer(p, b))
    /\ hostCommits' = hostCommits \ {<<p, b>>}
    /\ held' = held \ {<<p, b>>}
    /\ last' = Op("host", Null)
    /\ UNCHANGED <<proc, blocked, alive, m_backend, renderer, buffers, m_targetMap,
                   ipcOpen, bOut, tOut, hostNextId, hostFrames, epoch, fresh, heap,
                   chan>>

\* a host that does not keep to the protocol: any FrameComplete or
\* ReleaseBuffer, for any pool id and buffer id
StrayFrames ==
    {FrameComplete(p) : p \in PoolIds}
        \cup {ReleaseBuffer(p, b) : p \in PoolIds, b \in BufferIds}

hostStray(frame) ==
    /\ Frames(bIn) < MaxQueue
    /\ bIn' = Append(bIn, frame)
    /\ last' = Op("host", Null)
    /\ UNCHANGED <<proc, blocked, alive, m_backend, renderer, buffers, m_targetMap,
                   ipcOpen, bOut, tOut, hostNextId, hostCommits, hostFrames, epoch,
                   fresh, heap, held, chan>>

\* ------------------------------------------------- one IPC::Host or Client
\* everything but the channel object
poolVars == <<proc, blocked, alive, m_backend, renderer, buffers, m_targetMap,
              ipcOpen, bOut, bIn, tOut, hostNextId, hostCommits, hostFrames,
              epoch, fresh, last, heap, held>>

\* Host::initialize; ok = FALSE: socketpair or g_socket_new_from_fd failed and
\* the Host stays without socket, source and client descriptor
HostInitialize(ok) ==
    /\ chan.role = "none"
    /\ chan' = IF ok
               THEN [chan EXCEPT !.role = "Host", !.m_handler = TRUE, !.m_socket = TRUE,
                                 !.m_source = "attached", !.m_clientFd = TRUE,
                                 !.op = "initialize"]
               ELSE [chan EXCEPT !.role = "Host", !.m_handler = TRUE, !.op = "initialize"]
    /\ UNCHANGED poolVars

\* Client::initialize; ok = FALSE: g_socket_new_from_fd failed
ClientInitialize(ok) ==
    /\ chan.role = "none"
    /\ chan' = IF ok
               THEN [chan EXCEPT !.role = "Client", !.m_handler = TRUE, !.m_socket = TRUE,
                                 !.m_source = "attached", !.op = "initialize"]
               ELSE [chan EXCEPT !.role = "Client", !.m_handler = TRUE, !.op = "initialize"]
    /\ UNCHANGED poolVars

\* the peer at the other end sends its next frame, whole
peerSend ==
    /\ chan.m_source # "null" /\ ~chan.peerClosed
    /\ chan.sent < MaxSent
    /\ chan' = [chan EXCEPT !.wire = @ \o FrameBytes(chan.sent + 1), !.sent = @ + 1,
                            !.op = "peer"]
    /\ UNCHANGED poolVars

\* the peer closes its end
peerClose ==
    /\ chan.m_source # "null" /\ ~chan.peerClosed
    /\ chan' = [chan EXCEPT !.peerClosed = TRUE, !.op = "peer"]
    /\ UNCHANGED poolVars

\* What a receive of up to FrameSize bytes may return: some of the bytes that
\* are there, 0 at the end of a stream the peer closed, -1 for an error.
ReceiveLengths ==
    (1..(IF Len(chan.wire) < FrameSize THEN Len(chan.wire) ELSE FrameSize))
        \cup (IF chan.wire = <<>> /\ chan.peerClosed THEN {0, -1} ELSE {})

\* the callback's return value: FALSE, which removes the source, for len == -1
\* only (ipc.cpp 142-145 and 197-202), TRUE otherwise (151 and 209)
KeepsSource(len) == len # -1

\* the frame goes to handleMessage when len == Message::size (147 and 205)
Delivers(len) == len = FrameSize

\* the channel after a readiness callback whose receive returned len bytes
AfterCallback(len, handler) ==
    [chan EXCEPT !.wire = SubSeq(@, (IF len > 0 THEN len ELSE 0) + 1, Len(@)),
                 !.delivered = IF Delivers(len) /\ handler
                               THEN Append(@, SubSeq(chan.wire, 1, len)) ELSE @,
                 !.m_source = IF KeepsSource(len) THEN @ ELSE "removed",
                 !.len = len,
                 !.op = "socketCallback"]

\* Host::socketCallback: m_handler is called without a check
HostSocketCallback(len) ==
    /\ chan.role = "Host" /\ chan.status = "ok"
    /\ chan.m_source = "attached"
    /\ len \in ReceiveLengths
    /\ chan' = AfterCallback(len, TRUE)
    /\ UNCHANGED poolVars

\* Client::socketCallback
ClientSocketCallback(len) ==
    /\ chan.role = "Client" /\ chan.status = "ok"
    /\ chan.m_source = "attached"
    /\ len \in ReceiveLengths
    /\ chan' = AfterCallback(len, chan.m_handler)
    /\ UNCHANGED poolVars

\* freed: what a release through a pointer or descriptor that was released
\* before does, crash or carry on; "none" when the call repeats no release
Repeats(again, freed) ==
    IF again THEN freed \in {"crash", "carryOn"} ELSE freed = "none"

\* Host::deinitialize: m_clientFd, m_source and m_socket keep their values
HostDeinitialize(freed) ==
    LET r == chan.releases
        source == chan.m_source # "null"
    IN
    /\ chan.role = "Host" /\ chan.status = "ok"
    /\ chan.calls < MaxClose
    /\ Repeats((chan.m_clientFd /\ r.clientFd > 0) \/ (chan.m_socket /\ r.socket > 0), freed)
    /\ chan' = [chan EXCEPT
                  !.releases = [clientFd |-> IF chan.m_clientFd THEN r.clientFd + 1 ELSE r.clientFd,
                                source |-> IF source THEN r.source + 1 ELSE r.source,
                                socket |-> IF chan.m_socket THEN r.socket + 1 ELSE r.socket],
                  !.m_source = IF source THEN "destroyed" ELSE @,
                  !.m_handler = FALSE,
                  !.calls = @ + 1,
                  !.status = IF freed = "crash" THEN "crashed" ELSE @,
                  !.op = "deinitialize"]
    /\ UNCHANGED poolVars

\* Client::deinitialize: g_clear_object resets m_socket, m_source keeps its
\* value after g_source_destroy and the unref
ClientDeinitialize(freed) ==
    LET r == chan.releases
        source == chan.m_source # "null"
    IN
    /\ chan.role = "Client" /\ chan.status = "ok"
    /\ chan.calls < MaxClose
    /\ Repeats(source /\ r.source > 0, freed)
    /\ chan' = [chan EXCEPT
                  !.releases = [clientFd |-> r.clientFd,
                                source |-> IF source THEN r.source + 1 ELSE r.source,
                                socket |-> IF chan.m_socket THEN r.socket + 1 ELSE r.socket],
                  !.m_source = IF source THEN "destroyed" ELSE @,
                  !.m_socket = FALSE,
                  !.m_handler = FALSE,
                  !.calls = @ + 1,
                  !.status = IF freed = "crash" THEN "crashed" ELSE @,
                  !.op = "deinitialize"]
    /\ UNCHANGED poolVars

\* ------------------------------------------------------------------ Next
LockedSlots ==
    Cardinality({ts \in Targets \X Slots : buffers[ts[1]].pool[ts[2]].locked})

\* The sessions of all targets with a host that keeps to the protocol:
\* initialize, render, destroy.  The host releases soon enough that at most
\* MaxLocked slots are locked when a frame starts, and the frontend
\* initializes a target once.
Next ==
    \/ \E t \in Targets, a \in BOOLEAN, h \in BOOLEAN :
          LockedSlots < MaxLocked /\ frameWillRender(t, a, h)
    \/ \E t \in Targets : frameRendered(t)
    \/ \E t \in Targets : destroy(t)
    \/ \E t \in Targets, w \in Widths, h \in Heights :
          ~m_backend[t] /\ initializeSend(t, w, h)
    \/ \E t \in Targets : initializeReceive(t)
    \/ \E f \in {"none", "crash", "carryOn"} : socketCallback(f)
    \/ hostReceive(TRUE)
    \/ \E t \in Targets : hostReceiveTarget(t)
    \/ \E p \in 0..MaxPoolId : hostFrameComplete(p)
    \/ \E p \in 0..MaxPoolId, b \in Slots : hostReleaseBuffer(p, b)

\* One target's pool under any sequence of frontend calls and any inbound
\* frames.  No frame is in flight when the frontend calls: the host has read
\* what was sent, the event loop has dispatched what was received.
PoolTarget == CHOOSE t \in Targets : \A u \in Targets : t <= u
Drained == bOut = <<>> /\ bIn = <<>> /\ tOut[PoolTarget] = <<>>

NextPool ==
    \/ \E a \in BOOLEAN, h \in BOOLEAN : Drained /\ frameWillRender(PoolTarget, a, h)
    \/ Drained /\ frameRendered(PoolTarget)
    \/ \E w \in Widths, h \in Heights : Drained /\ resize(PoolTarget, w, h)
    \/ Drained /\ deinitialize(PoolTarget)
    \/ \E w \in Widths, h \in Heights : Drained /\ initializeSend(PoolTarget, w, h)
    \/ initializeReceive(PoolTarget)
    \/ socketCallback("none")
    \/ hostReceive(FALSE)
    \/ hostReceiveTarget(PoolTarget)
    \/ \E f \in StrayFrames : Drained /\ hostStray(f)

\* One target that renders and resizes while a host that keeps to the
\* protocol completes and releases what it has seen committed.  The host has
\* read the backend socket when the frontend resizes.
NextRace ==
    \/ \E a \in BOOLEAN, h \in BOOLEAN :
          LockedSlots < MaxLockedRace /\ frameWillRender(PoolTarget, a, h)
    \/ frameRendered(PoolTarget)
    \/ \E w \in Widths, h \in Heights : bOut = <<>> /\ resize(PoolTarget, w, h)
    \/ \E w \in Widths, h \in Heights :
          ~m_backend[PoolTarget] /\ initializeSend(PoolTarget, w, h)
    \/ initializeReceive(PoolTarget)
    \/ socketCallback("none")
    \/ hostReceive(TRUE)
    \/ hostReceiveTarget(PoolTarget)
    \/ \E p \in 0..MaxPoolId : hostFrameComplete(p)
    \/ \E p \in 0..MaxPoolId, b \in Slots : hostReleaseBuffer(p, b)

\* One channel object, Host or Client, with its peer: initialize, frames
\* arriving and read in pieces, the peer closing, deinitialize up to MaxClose
\* times.
NextChannel ==
    \/ \E ok \in BOOLEAN : HostInitialize(ok)
    \/ \E ok \in BOOLEAN : ClientInitialize(ok)
    \/ peerSend
    \/ peerClose
    \/ \E len \in -1..FrameSize : HostSocketCallback(len)
    \/ \E len \in -1..FrameSize : ClientSocketCallback(len)
    \/ \E f \in {"none", "crash", "carryOn"} : HostDeinitialize(f)
    \/ \E f \in {"none", "crash", "carryOn"} : ClientDeinitialize(f)

Spec == Init /\ [][Next]_vars
SpecPool == Init /\ [][NextPool]_vars
SpecChannel == Init /\ [][NextChannel]_vars
SpecRace == Init /\ [][NextRace]_vars

\* The same with a host and an event loop that do their part: the host
\* reads what reaches it and sends ReleaseBuffer for every commit it has seen,
\* the blocking receive returns and the event loop dispatches what arrives.
\* The frontend renders as long as it has frames to render, which may end.
FairRace ==
    /\ WF_vars(hostReceive(TRUE))
    /\ WF_vars(hostReceiveTarget(PoolTarget))
    /\ WF_vars(initializeReceive(PoolTarget))
    /\ WF_vars(socketCallback("none"))
    /\ \A p \in 0..MaxPoolId, b \in Slots : SF_vars(hostReleaseBuffer(p, b))

SpecRaceFair == SpecRace /\ FairRace

\* ================================================================ claims
\* the step just taken was operation op on target t
Did(op, t) == last'.op = op /\ last'.target = t

\* the step purged t's pool: a resize to another size, or a deinitialize
PurgeStep(t) ==
    \/ Did("resize", t) /\ ~SameSize(renderer[t], renderer'[t].width, renderer'[t].height)
    \/ Did("deinitialize", t)

\* the step appended exactly these frames to the backend socket
Sent(frames) == bOut' = bOut \o frames

Free(buffer) == ~buffer.object /\ ~buffer.locked /\ ~buffer.gpu
AllLocked(t) == \A i \in Slots : buffers[t].pool[i].locked
Unlocked(t) == {i \in Slots : ~buffers[t].pool[i].locked}

\* C1: between two purges a slot's buffer is allocated and announced with
\* BufferAllocation at most once; a frameWillRender that acquires a slot
\* which has its buffer keeps that buffer and sends nothing, and only a
\* purge takes a buffer away.
C1_AllocatedOncePerEpoch ==
    [][\A t \in Targets, i \in Slots :
          /\ epoch'[t][i] <= 1
          /\ (buffers[t].pool[i].object /\ ~PurgeStep(t))
                => buffers'[t].pool[i].object /\ epoch'[t][i] = epoch[t][i]
          /\ (Did("frameWillRender", t) /\ buffers'[t].current = i
                    /\ buffers[t].pool[i].object)
                => Sent(<<>>)]_vars

\* slot 0 is acquired again (slot 1 was in use meanwhile), with the buffer it
\* already had and nothing sent
C1_Witness ==
    /\ last = Op("frameWillRender", PoolTarget)
    /\ buffers[PoolTarget].current = 0
    /\ buffers[PoolTarget].pool[0].object
    /\ buffers[PoolTarget].pool[1].object
    /\ epoch[PoolTarget][0] = 1
    /\ bOut = <<>>

\* C2 as stated: a purge leaves all 4 slots Free, and the next
\* frameWillRender always sends BufferAllocation{poolId, bufferId} for the
\* slot it acquires.
C2_PurgeThenAlwaysAnnounced ==
    [][\A t \in Targets :
          /\ PurgeStep(t) => \A i \in Slots : Free(buffers'[t].pool[i])
          /\ (fresh[t] = "purged" /\ Did("frameWillRender", t))
                => /\ buffers'[t].current \in Slots
                   /\ Len(bOut') > Len(bOut)
                   /\ bOut'[Len(bOut) + 1] =
                         BufferAllocation(buffers[t].poolID, buffers'[t].current)]_vars

\* C2 (amended): a purge leaves all 4 slots Free, and the next
\* frameWillRender acquires a slot without a buffer: it sends
\* BufferAllocation{poolId, bufferId} for it when the allocation succeeds,
\* and sends nothing and leaves the slot without a buffer when it fails.
C2_PurgeThenAnnouncedIfAllocated ==
    [][\A t \in Targets :
          /\ PurgeStep(t) => \A i \in Slots : Free(buffers'[t].pool[i])
          /\ (fresh[t] = "purged" /\ Did("frameWillRender", t))
                => LET i == buffers'[t].current IN
                   /\ i \in Slots
                   /\ ~buffers[t].pool[i].object
                   /\ IF buffers'[t].pool[i].object
                      THEN /\ Len(bOut') > Len(bOut)
                           /\ bOut'[Len(bOut) + 1] = BufferAllocation(buffers[t].poolID, i)
                      ELSE Sent(<<>>)]_vars

\* the first frame after a purge has announced slot 0 anew
C2_Witness ==
    /\ last = Op("frameWillRender", PoolTarget)
    /\ fresh[PoolTarget] = "first"
    /\ buffers[PoolTarget].current = 0
    /\ buffers[PoolTarget].pool[0].object
    /\ bOut # <<>>
    /\ bOut[1] = BufferAllocation(buffers[PoolTarget].poolID, 0)

\* C3: a ReleaseBuffer{poolID, bufferID} handed to a target changes nothing
\* but the locked flag of the slot bufferID, and that only when poolID is the
\* target's pool id and bufferID is one of 0..3; buffers, the current slot,
\* the other slots and the other targets stay as they were.
C3_ReleaseIsExact ==
    [][\A t \in Targets :
          (Did("handleMessage", t) /\ last'.frame.code = "ReleaseBuffer" /\ alive[t])
             => LET f == last'.frame
                    hit == f.poolID = buffers[t].poolID /\ f.bufferID \in Slots
                IN
                /\ buffers'[t].current = buffers[t].current
                /\ buffers'[t].poolID = buffers[t].poolID
                /\ \A i \in Slots :
                      /\ buffers'[t].pool[i].object = buffers[t].pool[i].object
                      /\ buffers'[t].pool[i].gpu = buffers[t].pool[i].gpu
                      /\ buffers'[t].pool[i].bufferID = buffers[t].pool[i].bufferID
                      /\ buffers'[t].pool[i].locked =
                            IF hit /\ i = f.bufferID THEN FALSE
                            ELSE buffers[t].pool[i].locked
                /\ \A u \in Targets \ {t} : buffers'[u] = buffers[u]]_vars

\* a ReleaseBuffer of another pool id reached the target and the slot it
\* names is still locked
C3_Witness ==
    /\ last.op = "handleMessage" /\ last.target = PoolTarget
    /\ last.frame.code = "ReleaseBuffer"
    /\ last.frame.poolID # buffers[PoolTarget].poolID
    /\ \E i \in Slots : i = last.frame.bufferID /\ buffers[PoolTarget].pool[i].locked

\* C4: frameWillRender aborts exactly when all 4 slots are locked at the
\* call; with a slot unlocked it makes an unlocked slot current.
C4_AbortIffSaturated ==
    [][\A t \in Targets :
          Did("frameWillRender", t)
             => /\ (proc' = "aborted") <=> AllLocked(t)
                /\ ~AllLocked(t) => buffers'[t].current \in Unlocked(t)]_vars

C4_Witness ==
    /\ last = Op("frameWillRender", PoolTarget)
    /\ proc = "aborted"
    /\ AllLocked(PoolTarget)

\* C5: the slot frameWillRender makes current is the unlocked slot of the
\* lowest index.
C5_LowestUnlockedFirst ==
    [][\A t \in Targets :
          (Did("frameWillRender", t) /\ proc' = "running")
             => /\ buffers'[t].current \in Unlocked(t)
                /\ \A j \in Unlocked(t) : buffers'[t].current <= j]_vars

\* the fourth frame in a row without a release renders into slot 3
C5_Witness ==
    /\ last = Op("frameWillRender", PoolTarget)
    /\ buffers[PoolTarget].current = 3
    /\ \A j \in 0..2 : buffers[PoolTarget].pool[j].locked /\ buffers[PoolTarget].pool[j].object

\* C6 as stated: every frameRendered sends exactly one BufferCommit naming
\* the pool id and the current slot, locks that slot and clears current; no
\* slot gets locked in a step that sends no BufferCommit for it.
C6_LockedOnlyWithCommit ==
    [][\A t \in Targets :
          /\ Did("frameRendered", t)
                => LET c == buffers[t].current IN
                   /\ Sent(<<BufferCommit(buffers[t].poolID, buffers[t].pool[c].bufferID)>>)
                   /\ buffers'[t].pool[c].locked
                   /\ buffers'[t].current = Null
          /\ \A i \in Slots :
                (~buffers[t].pool[i].locked /\ buffers'[t].pool[i].locked)
                   => Sent(<<BufferCommit(buffers[t].poolID, i)>>)]_vars

\* C7 as stated: m_targetMap holds an entry exactly while its target is
\* alive, and no frame is dispatched to a deleted EGLTarget.
C7_RegistryOnlyLiveTargets ==
    /\ \A p \in DOMAIN m_targetMap : alive[m_targetMap[p]]
    /\ (last.op = "handleMessage" /\ last.target # Null) => alive[last.target]

\* C8: a FrameComplete or ReleaseBuffer whose pool id has no entry in
\* m_targetMap ends the process, reaches no target and changes no slot; with
\* an entry it goes to the target registered under that pool id and leaves
\* every other target alone.
C8_DispatchByPoolId ==
    [][(last'.op = "handleMessage" /\ bIn # <<>>
          /\ Head(bIn).code \in {"FrameComplete", "ReleaseBuffer"})
         => LET p == Head(bIn).poolID IN
            IF p \notin DOMAIN m_targetMap
            THEN proc' = "aborted" /\ last'.target = Null /\ buffers' = buffers
            ELSE /\ last'.target = m_targetMap[p]
                 /\ \A u \in Targets \ {m_targetMap[p]} : buffers'[u] = buffers[u]]_vars

\* a frame for a pool id that was never registered has ended the process
C8_Witness ==
    /\ last.op = "handleMessage"
    /\ last.frame.code \in {"FrameComplete", "ReleaseBuffer"}
    /\ last.frame.poolID \notin DOMAIN m_targetMap
    /\ proc = "aborted"

\* C9 as stated: when initialize returns, the host has answered its
\* PoolConstruction, the target's pool id is the id the host assigned, the
\* target is registered under it and RegisterPool with that id was sent.
C9_InitializeYieldsAssignedId ==
    [][\A t \in Targets :
          Did("initializeReceive", t)
             => LET id == hostNextId - 1 IN
                /\ \A k \in 1..Len(bOut) : bOut[k].code # "PoolConstruction"
                /\ id \in PoolIds
                /\ buffers'[t].poolID = id
                /\ id \in DOMAIN m_targetMap' /\ m_targetMap'[id] = t
                /\ tOut'[t] = Append(tOut[t], RegisterPool(id))]_vars

\* C10 as stated: the frame the blocking receive of the round trip takes is
\* the PoolConstructionReply, and no PoolConstructionReply comes through the
\* asynchronous handler.
C10_RoundTripTakesItsReply ==
    /\ last.op = "initializeReceive" => last.frame.code = "PoolConstructionReply"
    /\ last.op = "handleMessage" => last.frame.code # "PoolConstructionReply"

\* C11: ~EGLTarget sends UnregisterPool with the target's pool id on the
\* target's socket while that socket is still open and closes it after;
\* nothing is sent on a target's socket once it is closed.
C11_UnregisterBeforeClose ==
    [][\A t \in Targets :
          /\ Did("destroy", t)
                => /\ ipcOpen[t] /\ ~ipcOpen'[t]
                   /\ tOut'[t] = Append(tOut[t], UnregisterPool(buffers[t].poolID))
          /\ ~ipcOpen[t] => Len(tOut'[t]) <= Len(tOut[t])]_vars

\* a target that had its pool id assigned is destroyed: its socket is closed
\* and UnregisterPool with that id is the last frame on it
C11_Witness ==
    \E t \in Targets :
        /\ last = Op("destroy", t)
        /\ ~ipcOpen[t]
        /\ buffers[t].poolID \in PoolIds
        /\ tOut[t] # <<>>
        /\ tOut[t][Len(tOut[t])] = UnregisterPool(buffers[t].poolID)

\* C12 as stated: on a channel that is not closed the frames handed to
\* handleMessage are the frames sent, in order, each whole, none lost, also
\* when a receive returns fewer bytes than one frame.
C12_DeliveredIsSent ==
    (chan.calls = 0 /\ ~chan.peerClosed)
       => /\ \A k \in 1..Len(chan.delivered) : chan.delivered[k] = FrameBytes(k)
          /\ chan.wire = <<>> => Len(chan.delivered) = chan.sent

\* C13 as stated: a read of 1..size-1 bytes reaches no handler and leaves
\* the source active; a read of 0 bytes deactivates the source.
C13_EmptyReadDeactivates ==
    [][chan'.op = "socketCallback"
          => /\ chan'.len \in 1..(FrameSize - 1)
                   => chan'.delivered = chan.delivered /\ chan'.m_source = "attached"
             /\ chan'.len = 0 => chan'.m_source # "attached"]_vars

\* C14 as stated: every BufferAllocation put on the backend socket is
\* followed at once by the handle of its slot, and no handle goes out
\* without its BufferAllocation right before it.
C14_HandlePerAllocation ==
    [][Len(bOut') > Len(bOut)
          => LET added == SubSeq(bOut', Len(bOut) + 1, Len(bOut')) IN
             /\ bOut' = bOut \o added
             /\ \A k \in 1..Len(added) :
                   /\ added[k].code = "BufferAllocation"
                         => /\ k < Len(added)
                            /\ added[k + 1] = HandleByte(added[k].poolID, added[k].bufferID)
                   /\ added[k].code = "Handle"
                         => /\ k > 1
                            /\ added[k - 1] = BufferAllocation(added[k].poolID, added[k].bufferID)]_vars

\* C15 as stated: every purge, by a resize to another size or by
\* deinitialize, sends PoolPurge with the target's pool id.
C15_PurgeIsAnnounced ==
    [][\A t \in Targets :
          PurgeStep(t) => tOut'[t] = Append(tOut[t], PoolPurge(buffers[t].poolID))]_vars

\* C16: a slot has an AHardwareBuffer allocated exactly when it holds one; a
\* purge releases the buffer of each slot that holds one, once, and leaves
\* none allocated, so a purge right after a purge releases nothing.
C16_HandlesDestroyedOnce ==
    [][\A t \in Targets :
          /\ \A i \in Slots :
                heap'[t][i] = IF buffers'[t].pool[i].object THEN 1 ELSE 0
          /\ PurgeStep(t)
                => /\ last'.released = Cardinality({i \in Slots : buffers[t].pool[i].object})
                   /\ \A i \in Slots : heap'[t][i] = 0]_vars

\* a purge released the buffers of two slots
C16_Witness ==
    /\ last.op \in {"resize", "deinitialize"}
    /\ last.target = PoolTarget
    /\ last.released = 2
    /\ \A i \in Slots : heap[PoolTarget][i] = 0 /\ ~buffers[PoolTarget].pool[i].object

\* C17 as stated: deinitialize called twice on a Host or a Client releases
\* the source, the socket and the client descriptor once each.
C17_CloseIsIdempotent ==
    /\ chan.releases.source <= 1
    /\ chan.releases.socket <= 1
    /\ chan.releases.clientFd <= 1
    /\ chan.status = "ok"

\* C18: resize purges the pool and sends PoolPurge exactly when the size
\* differs from the stored one; with the same size it sends nothing and
\* leaves the pool, the current slot and the size as they were.
C18_ResizePurgesIffChanged ==
    [][\A t \in Targets :
          Did("resize", t)
             => IF renderer'[t] = renderer[t]
                THEN buffers' = buffers /\ tOut' = tOut /\ bOut' = bOut
                ELSE /\ tOut'[t] = Append(tOut[t], PoolPurge(buffers[t].poolID))
                     /\ \A i \in Slots : Free(buffers'[t].pool[i])]_vars

\* a resize to the size the target has left a slot with its buffer and sent
\* nothing
C18_Witness ==
    /\ last = Op("resize", PoolTarget)
    /\ tOut[PoolTarget] = <<>>
    /\ \E i \in Slots : buffers[PoolTarget].pool[i].object /\ buffers[PoolTarget].pool[i].locked

\* C19 as stated: no slot is locked while it has no buffer.
C19_LockedHasHandle ==
    \A t \in Targets, i \in Slots :
        buffers[t].pool[i].locked => buffers[t].pool[i].object

\* C20 as stated: with a host that releases only what it has seen
\* committed, frameWillRender never acquires a slot whose buffer the host
\* has seen committed and has not released.
C20_AcquiredIsNotHeld ==
    [][\A t \in Targets :
          (Did("frameWillRender", t) /\ proc' = "running")
             => <<buffers[t].poolID, buffers'[t].current>> \notin held]_vars

\* C21 as stated: with a host that sends ReleaseBuffer for every BufferCommit
\* it receives, a slot that is locked is unlocked later.
C21_LockedEventuallyUnlocked ==
    \A i \in Slots :
        buffers[PoolTarget].pool[i].locked ~> ~buffers[PoolTarget].pool[i].locked

\* C22 as stated: when the host takes a BufferAllocation or BufferCommit of
\* pool p off the backend socket, it has received the RegisterPool{p} and
\* every PoolPurge{p} the client sent before that frame: none is still on
\* its way on the target's socket.
C22_HostSeesSendOrder ==
    [][(bOut # <<>> /\ bOut' = Tail(bOut)
          /\ Head(bOut).code \in {"BufferAllocation", "BufferCommit"})
         => \A t \in Targets : \A k \in 1..Len(tOut[t]) :
               ~(/\ tOut[t][k].code \in {"RegisterPool", "PoolPurge"}
                 /\ tOut[t][k].poolID = Head(bOut).poolID)]_vars

\* C23 as stated: every BufferAllocation, BufferCommit, PoolPurge and
\* UnregisterPool a target sends carries a pool id the host assigned and
\* under which the target registered; none carries 0.
C23_SendsAssignedPoolId ==
    [][\A t \in Targets :
          LET own(frame) == /\ frame.poolID \in PoolIds
                            /\ Find(m_targetMap, frame.poolID) = t
          IN
          /\ Len(tOut'[t]) > Len(tOut[t])
                => LET frame == tOut'[t][Len(tOut'[t])] IN
                   frame.code \in {"PoolPurge", "UnregisterPool"} => own(frame)
          /\ (Len(bOut') > Len(bOut) /\ last'.target = t)
                => \A k \in (Len(bOut) + 1)..Len(bOut') :
                      bOut'[k].code \in {"BufferAllocation", "BufferCommit"} => own(bOut'[k])]_vars
====
